---- MODULE Spec2Model ----
(***************************************************************************)
(* A model of jekyll_translator.py: the batch translator of a Jekyll       *)
(* content tree.  Text is a sequence of one-character strings; a character *)
(* outside ASCII is a named token ("E_ACUTE" for U+00C9, "e_acute" for     *)
(* U+00E9, "COMBINING_ACUTE" for U+0301).                                  *)
(***************************************************************************)
EXTENDS Integers, Sequences, FiniteSets, TLC

VARIABLES
    fs,       \* the tree under SOURCE_DIR: path -> file
    fs0,      \* the tree as it was when the current run started
    dirIdx,   \* main(): index into DIRECTORIES of the directory being walked
    pending,  \* process_directory(): files of the walk not yet visited
    pc,       \* position of the run
    cur,      \* source_file of the file being processed
    data,     \* translate_file(): front_matter_data
    body,     \* translate_file(): body, then translated_body
    trace,    \* what the run printed, called and slept, in order
    input,    \* argument of the function under study (function specs)
    output,   \* its result
    stage     \* "init" | "once" | "twice" (function specs), "run" otherwise

vars == <<fs, fs0, dirIdx, pending, pc, cur, data, body, trace, input, output, stage>>

runVars == <<fs, fs0, dirIdx, pending, pc, cur, data, body, trace>>

fnVars == <<input, output, stage>>

\* ------------------------------------------------------------------ bounds

MaxSlugLen == 4

MaxTextLen == 3

MaxLinkLen == 4

\* ------------------------------------------------------------- characters

LowerLetters ==
    <<"a","b","c","d","e","f","g","h","i","j","k","l","m",
      "n","o","p","q","r","s","t","u","v","w","x","y","z">>

UpperLetters ==
    <<"A","B","C","D","E","F","G","H","I","J","K","L","M",
      "N","O","P","Q","R","S","T","U","V","W","X","Y","Z">>

Digits == {"0","1","2","3","4","5","6","7","8","9"}

Range(s) == {s[i] : i \in 1..Len(s)}

IndexOf(s, c) == CHOOSE i \in 1..Len(s) : s[i] = c

\* str.lower() on one character
LowerChar(c) ==
    IF c \in Range(UpperLetters) THEN LowerLetters[IndexOf(UpperLetters, c)]
    ELSE IF c = "E_ACUTE" THEN "e_acute"
    ELSE c

\* str.upper() on one character (the uppercasing stub translator)
UpperChar(c) ==
    IF c \in Range(LowerLetters) THEN UpperLetters[IndexOf(LowerLetters, c)]
    ELSE IF c = "e_acute" THEN "E_ACUTE"
    ELSE c

\* str.lower()
Lower(s) == [i \in 1..Len(s) |-> LowerChar(s[i])]

\* str.upper()
Upper(s) == [i \in 1..Len(s) |-> UpperChar(s[i])]

\* unicodedata.normalize('NFD', c) of one character
NFDChar(c) ==
    IF c = "e_acute" THEN <<"e", "COMBINING_ACUTE">>
    ELSE IF c = "E_ACUTE" THEN <<"E", "COMBINING_ACUTE">>
    ELSE <<c>>

RECURSIVE NFD(_)
NFD(s) == IF s = <<>> THEN <<>> ELSE NFDChar(Head(s)) \o NFD(Tail(s))

\* unicodedata.category(c) != 'Mn'
NotMark(c) == c # "COMBINING_ACUTE"

\* the character class [a-z0-9]
IsSlugChar(c) == c \in Range(LowerLetters) \cup Digits

RECURSIVE DropWhileNotSlug(_)
DropWhileNotSlug(s) ==
    IF s = <<>> \/ IsSlugChar(Head(s)) THEN s ELSE DropWhileNotSlug(Tail(s))

\* a regular expression without its "+": every character outside the class
\* becomes a hyphen of its own
RECURSIVE SubEachChar(_)
SubEachChar(s) ==
    IF s = <<>> THEN <<>>
    ELSE <<IF IsSlugChar(Head(s)) THEN Head(s) ELSE "-">> \o SubEachChar(Tail(s))

\* re.sub(r'[^a-z0-9]+', '-', s): every maximal run outside the class
\* becomes one hyphen
RECURSIVE SubRuns(_)
SubRuns(s) ==
    IF s = <<>> THEN <<>>
    ELSE IF IsSlugChar(Head(s)) THEN <<Head(s)>> \o SubRuns(Tail(s))
    ELSE <<"-">> \o SubRuns(DropWhileNotSlug(Tail(s)))

RECURSIVE LStrip(_, _)
LStrip(s, drop) ==
    IF s # <<>> /\ Head(s) \in drop THEN LStrip(Tail(s), drop) ELSE s

RECURSIVE RStrip(_, _)
RStrip(s, drop) ==
    IF s # <<>> /\ s[Len(s)] \in drop THEN RStrip(SubSeq(s, 1, Len(s) - 1), drop)
    ELSE s

\* str.strip(chars)
StripChars(s, drop) == RStrip(LStrip(s, drop), drop)

\* str.strip()
Strip(s) == StripChars(s, {" ", "\n", "\t"})

\* generate_slug with the regular expression's "+" forgotten
generate_slug_each(title) ==
    StripChars(SubEachChar(SelectSeq(NFD(Lower(title)), NotMark)), {"-"})

generate_slug(title) ==
    StripChars(SubRuns(SelectSeq(NFD(Lower(title)), NotMark)), {"-"})

\* ------------------------------------------------------- bounded inputs

RECURSIVE TextsUpTo(_, _)
TextsUpTo(alphabet, n) ==
    IF n = 0 THEN {<<>>}
    ELSE LET shorter == TextsUpTo(alphabet, n - 1)
         IN  shorter \cup {Append(s, c) : s \in shorter, c \in alphabet}

SlugAlphabet == {"A", "b", "7", " ", "!", "-", "E_ACUTE", "COMBINING_ACUTE"}

\* --------------------------------------------------------------- values

\* A YAML value: a string, a sequence of values, a scalar that is no string
\* (an integer, IntVal), the null of an empty document, or a mapping with its keys
\* in insertion order.
Str(s) == [t |-> "str", s |-> s]

List(l) == [t |-> "list", l |-> l]

IntVal == [t |-> "int"]

None == [t |-> "none"]

Map(keys, val) == [t |-> "map", keys |-> keys, val |-> val]

HasKey(d, k) == k \in Range(d.keys)

\* the mapping of a sequence of <<key, value>> entries
FrontMatter(entries) ==
    Map([i \in 1..Len(entries) |-> entries[i][1]],
        [k \in {entries[i][1] : i \in 1..Len(entries)} |->
            entries[CHOOSE i \in 1..Len(entries) : entries[i][1] = k][2]])

\* d[k] = v on a dict: a new key goes last, a known key keeps its place
SetKey(d, k, v) ==
    [d EXCEPT !.keys = IF HasKey(d, k) THEN d.keys ELSE Append(d.keys, k),
              !.val = (k :> v) @@ d.val]

KeyText ==
    [title |-> <<"t","i","t","l","e">>,
     subheadline |-> <<"s","u","b","h","e","a","d","l","i","n","e">>,
     teaser |-> <<"t","e","a","s","e","r">>,
     categories |-> <<"c","a","t","e","g","o","r","i","e","s">>,
     tags |-> <<"t","a","g","s">>,
     permalink |-> <<"p","e","r","m","a","l","i","n","k">>]

\* the text an f-string puts in the prompt for a value
Render(v) ==
    CASE v.t = "str" -> v.s
      [] v.t = "int" -> <<"5">>

StartsWith(s, prefix) ==
    Len(s) >= Len(prefix) /\ SubSeq(s, 1, Len(prefix)) = prefix

\* -------------------------------------------------- external capability

\* What client.chat.completions.create does on one call: it raises, or it
\* returns a response without choices, or one whose message has no content,
\* or one with a content.
Raise == [kind |-> "raise"]

NoChoices == [kind |-> "nochoices"]

NoContent == [kind |-> "nocontent"]

Ok(content) == [kind |-> "ok", content |-> content]

\* a stub that uppercases the text it is given
UpperStub(text) == Ok(Upper(text))

\* a service that answers with the text between blank characters
PaddedEcho(text) == Ok(<<" ">> \o text \o <<"\n">>)

\* what the external capability does on a call: it fails, it uppercases,
\* or it answers with a text of its own
Modes == {"raise", "upper", "salut"}

ReplyOf(mode, v) ==
    CASE mode = "raise" -> Raise
      [] mode = "upper" -> UpperStub(Render(v))
      [] mode = "salut" -> Ok(<<"S","a","l","u","t"," ">>)

RepliesTo(calls, modes) == [i \in 1..Len(calls) |-> ReplyOf(modes[i], calls[i].text)]

\* ----------------------------------------------------------- translators

\* translate_text with the strip applied to the fallback as well
translate_text_stripped(text, reply) ==
    IF reply.kind = "ok" THEN Str(Strip(reply.content))
    ELSE IF text.t = "str" THEN Str(Strip(text.s)) ELSE text

\* translate_text(text, ...): text is a value, the reply is what the call
\* made inside the try block does
translate_text(text, reply) ==
    IF reply.kind = "ok" THEN Str(Strip(reply.content)) ELSE text

\* translate_markdown(markdown_text, ...)
translate_markdown(markdown_text, reply) ==
    IF reply.kind = "ok" THEN Strip(reply.content) ELSE markdown_text

\* --------------------------------------------------- front-matter fields

DESTINATION_LANGUAGE_CODE == <<"f", "r">>

LanguagePrefix == <<"/">> \o DESTINATION_LANGUAGE_CODE \o <<"/">>

fields_to_translate == <<"title", "subheadline", "teaser">>

list_fields == <<"categories", "tags">>

\* the calls of translate_text for one field, in call order: the field each
\* is made for and the value handed over
FieldCalls(d, field) ==
    IF ~HasKey(d, field) THEN <<>>
    ELSE IF field \in Range(list_fields) /\ d.val[field].t = "list"
         THEN [i \in 1..Len(d.val[field].l) |->
                  [field |-> field, text |-> d.val[field].l[i]]]
         ELSE <<[field |-> field, text |-> d.val[field]]>>

RECURSIVE CallsOf(_, _)
CallsOf(d, fields) ==
    IF fields = <<>> THEN <<>>
    ELSE FieldCalls(d, Head(fields)) \o CallsOf(d, Tail(fields))

\* every call of translate_text a mapping causes, in call order
FrontMatterCalls(d) ==
    IF d.t = "map" THEN CallsOf(d, fields_to_translate \o list_fields) ELSE <<>>

\* the field's new value, its calls being replies[off + 1 ..]
TranslatedField(d, field, replies, off) ==
    IF field \in Range(list_fields) /\ d.val[field].t = "list"
    THEN List([i \in 1..Len(d.val[field].l) |->
                  translate_text(d.val[field].l[i], replies[off + i])])
    ELSE translate_text(d.val[field], replies[off + 1])

RECURSIVE translate_fields(_, _, _, _)
translate_fields(d, fields, replies, off) ==
    IF fields = <<>> THEN d
    ELSE LET f == Head(fields)
             n == Len(FieldCalls(d, f))
             d1 == IF HasKey(d, f)
                   THEN SetKey(d, f, TranslatedField(d, f, replies, off))
                   ELSE d
         IN  translate_fields(d1, Tail(fields), replies, off + n)

Returned(d) == [raised |-> FALSE, data |-> d]

Raised == [raised |-> TRUE]

\* the slug update that keeps a slug the front matter already has
update_slug_keep(d) ==
    IF ~HasKey(d, "title") \/ HasKey(d, "slug") THEN Returned(d)
    ELSE IF d.val["title"].t # "str" THEN Raised
    ELSE Returned(SetKey(d, "slug", Str(generate_slug(d.val["title"].s))))

\* "Update slug": a title that is no string has no lower() and raises
update_slug(d) ==
    IF ~HasKey(d, "title") THEN Returned(d)
    ELSE IF d.val["title"].t # "str" THEN Raised
    ELSE Returned(SetKey(d, "slug", Str(generate_slug(d.val["title"].s))))

\* "Update permalink": a permalink that is no string has no startswith()
update_permalink(d) ==
    IF ~HasKey(d, "permalink") THEN Returned(d)
    ELSE LET permalink == d.val["permalink"]
         IN  IF permalink.t # "str" THEN Raised
             ELSE IF ~StartsWith(permalink.s, LanguagePrefix)
                  THEN Returned(SetKey(d, "permalink",
                           Str(<<"/">> \o DESTINATION_LANGUAGE_CODE \o permalink.s)))
                  ELSE Returned(d)

\* `field in front_matter_data` on a list is membership of the string
NamesAField(l) ==
    \E k \in DOMAIN KeyText : \E i \in 1..Len(l) : l[i] = Str(KeyText[k])

\* translate_front_matter(front_matter_data, ...): replies[i] is what the
\* i-th external call does.  The result says whether an exception left the
\* function, and which calls of translate_text were made before.
translate_front_matter(front_matter_data, replies) ==
    CASE front_matter_data.t = "none" ->
            \* 'title' in None: TypeError
            [raised |-> TRUE, calls |-> <<>>]
      [] front_matter_data.t = "list" ->
            \* a list that holds a field's name is then indexed by it: TypeError
            IF NamesAField(front_matter_data.l)
            THEN [raised |-> TRUE, calls |-> <<>>]
            ELSE [raised |-> FALSE, calls |-> <<>>, data |-> front_matter_data]
      [] front_matter_data.t = "map" ->
            LET calls == FrontMatterCalls(front_matter_data)
                d1 == translate_fields(front_matter_data,
                          fields_to_translate \o list_fields, replies, 0)
                d2 == update_slug(d1)
                d3 == update_permalink(d2.data)
            IN  IF d2.raised \/ d3.raised
                THEN [raised |-> TRUE, calls |-> calls]
                ELSE [raised |-> FALSE, calls |-> calls, data |-> d3.data]

\* ------------------------------------------------------------ the tree

\* A path below SOURCE_DIR: its directories, and the file's name as the
\* part before the suffix and the suffix.
Path(dirs, file, suffix) == [dirs |-> dirs, file |-> file, suffix |-> suffix]

DIRECTORIES == <<"pages", "_posts", "blog">>

\* DESTINATION_LANGUAGE_CODE as a path component
DestinationCodeName == "fr"

\* DEST_DIR, relative to SOURCE_DIR
DEST_DIR == <<DestinationCodeName>>

\* the destination made from the file's name alone: DEST_DIR / file
dest_file_flat(source_file) == [source_file EXCEPT !.dirs = DEST_DIR]

\* dest_file = DEST_DIR / source_file.relative_to(SOURCE_DIR)
dest_file(source_file) == [source_file EXCEPT !.dirs = DEST_DIR \o source_file.dirs]

\* file.endswith('.md')
EndsWithMd(p) == p.suffix = ".md"

\* A file of the tree: absent, a text file of lines (readable or not), a
\* document the run wrote ("---\n" + yaml.dump(front_matter) + "---\n" +
\* body), a file opened for writing and still empty, or one that holds only
\* a proper prefix of the document.
Absent == [k |-> "absent"]

TextFile(lines) == [k |-> "file", readable |-> TRUE, lines |-> lines]

Unreadable == [k |-> "file", readable |-> FALSE, lines |-> <<>>]

Doc(front_matter, text) == [k |-> "doc", front_matter |-> front_matter, body |-> text]

Empty == [k |-> "empty"]

Truncated(doc) == [k |-> "partial", of |-> doc]

\* A line of a text file: "---" and blanks only, blanks only, a YAML
\* "key: value" line, a YAML "- value" line, or any other text.
Marker == [k |-> "marker"]

Blank(s) == [k |-> "blank", s |-> s]

Entry(key, val) == [k |-> "entry", key |-> key, val |-> val]

Item(val) == [k |-> "item", val |-> val]

Text(s) == [k |-> "text", s |-> s]

LineText(line) ==
    CASE line.k = "text" -> line.s
      [] line.k = "blank" -> line.s
      [] line.k = "marker" -> <<"-", "-", "-">>

RECURSIVE JoinLines(_)
JoinLines(lines) ==
    IF Len(lines) = 1 THEN LineText(lines[1])
    ELSE LineText(lines[1]) \o <<"\n">> \o JoinLines(Tail(lines))

Min(S) == CHOOSE x \in S : \A y \in S : x <= y

Max(S) == CHOOSE x \in S : \A y \in S : x >= y

\* Where the remainder group starts after the closing marker at line m: the
\* greedy \s* takes the blank lines that follow, up to the last newline
\* before a line that is not blank (or before the last line).
BodyAfter(lines, m) ==
    LET n == Len(lines)
        k == Min({i \in (m + 1)..n : lines[i].k # "blank"} \cup {n})
    IN  JoinLines(SubSeq(lines, k, n))

\* re.match(r'---\s*\n(.*?)\n---\s*\n(.*)', content, re.DOTALL) on the
\* lines of content (content.split('\n')).  The opening \s* is greedy over
\* the blank lines after the first marker and gives them back one by one;
\* the first group is lazy and ends before the first closing marker that a
\* newline follows.
MatchFrontMatter(lines) ==
    LET n == Len(lines)
        j == Max({i \in 1..n : \A m \in 2..i : lines[m].k = "blank"})
        closers == {m \in (j + 2)..(n - 1) : lines[m].k = "marker"}
    IN  IF n = 0 \/ lines[1].k # "marker" THEN [matched |-> FALSE]
        ELSE IF closers # {}
             THEN [matched |-> TRUE,
                   front |-> SubSeq(lines, j + 1, Min(closers) - 1),
                   body |-> BodyAfter(lines, Min(closers))]
        ELSE IF j >= 2 /\ j + 1 <= n - 1 /\ lines[j + 1].k = "marker"
             THEN [matched |-> TRUE,
                   front |-> <<lines[j]>>,
                   body |-> BodyAfter(lines, j + 1)]
        ELSE [matched |-> FALSE]

IsContent(line) == line.k # "blank"

\* yaml.safe_load(front_matter) on block-style lines: a leading "---" opens
\* the document, no content is null, "key: value" lines are a mapping in
\* their order, "- value" lines are a sequence.
safe_load(front) ==
    LET shown == SelectSeq(front, IsContent)
        content == IF shown # <<>> /\ shown[1].k = "marker" THEN Tail(shown) ELSE shown
    IN  CASE content = <<>> -> None
          [] content # <<>> /\ \A i \in 1..Len(content) : content[i].k = "entry" ->
                FrontMatter([i \in 1..Len(content) |-> <<content[i].key, content[i].val>>])
          [] content # <<>> /\ \A i \in 1..Len(content) : content[i].k = "item" ->
                List([i \in 1..Len(content) |-> content[i].val])

\* ------------------------------------------------------- the input trees

AboutMd == Path(<<"pages">>, "about", ".md")

LogoPng == Path(<<"pages">>, "logo", ".png")

PostMd == Path(<<"_posts">>, "post", ".md")

NewsMd == Path(<<"blog", "2024">>, "news", ".md")

SourcePaths == {AboutMd, LogoPng, PostMd, NewsMd}

\* where the end-to-end scenario of the specification puts the translation
ScenarioDest == Path(<<"pages", DestinationCodeName>>, "about", ".md")

\* fr/pages/about.md below the source root
MirroredDest == Path(<<DestinationCodeName, "pages">>, "about", ".md")

AllPaths == SourcePaths \cup {dest_file(p) : p \in SourcePaths}

\* pages/about.md of the end-to-end scenario
ScenarioFile ==
    TextFile(<<Marker,
               Entry("title", Str(<<"H","e","l","l","o"," ","W","o","r","l","d">>)),
               Entry("permalink", Str(<<"/","a","b","o","u","t">>)),
               Marker,
               Text(<<"#"," ","H","i">>),
               Blank(<<>>),
               Text(<<"S","o","m","e"," ","*","t","e","x","t","*",".">>)>>)

\* a Markdown file with no front-matter block
PlainFile == TextFile(<<Text(<<"#"," ","H","i">>), Blank(<<>>)>>)

\* two markers with nothing but an empty line between them
EmptyFrontMatterFile == TextFile(<<Marker, Blank(<<>>), Marker, Text(<<"x">>), Blank(<<>>)>>)

\* two markers one after the other: the pattern does not match
AdjacentMarkersFile == TextFile(<<Marker, Marker, Text(<<"x">>), Blank(<<>>)>>)

\* a front matter that is a YAML sequence
SequenceFile == TextFile(<<Marker, Item(Str(<<"a">>)), Marker, Text(<<"x">>), Blank(<<>>)>>)

\* a slug without a title, tags as a list, a permalink that is an integer
NumericPermalinkFile ==
    TextFile(<<Marker,
               Entry("slug", Str(<<"o","l","d">>)),
               Entry("tags", List(<<Str(<<"a">>), Str(<<"b">>)>>)),
               Entry("permalink", IntVal),
               Marker, Text(<<"x">>)>>)

\* a title that is an integer, and a body that ends with a newline
NumericTitleFile ==
    TextFile(<<Marker, Entry("title", IntVal), Marker, Blank(<<>>), Text(<<"y">>), Blank(<<>>)>>)

\* a closing marker with no newline after it: the pattern does not match
UnterminatedFile == TextFile(<<Marker, Entry("title", Str(<<"a">>)), Marker>>)

\* a file that is no Markdown
BinaryFile == TextFile(<<Text(<<"P","N","G">>)>>)

\* a translation left by an earlier run
OldDoc == Doc(FrontMatter(<< <<"title", Str(<<"V","i","e","u","x">>)>> >>), <<"v","i","e","u","x">>)

AboutChoices == {ScenarioFile, PlainFile, EmptyFrontMatterFile, Unreadable}

LogoChoices == {Absent, BinaryFile}

PostChoices == {Absent, SequenceFile, NumericPermalinkFile, AdjacentMarkersFile}

NewsChoices == {Absent, NumericTitleFile, UnterminatedFile}

\* the tree with these four source files and an earlier translation of
\* the files of translated
TreeOf(about, logo, post, news, translated) ==
    LET src == (AboutMd :> about) @@ (LogoPng :> logo) @@ (PostMd :> post) @@ (NewsMd :> news)
    IN  [p \in AllPaths |->
            IF p \in SourcePaths THEN src[p]
            ELSE IF \E q \in translated : p = dest_file(q) THEN OldDoc
            ELSE Absent]

\* the trees a run may start from: every choice of source files, with or
\* without an earlier translation of each Markdown file that is there
Trees ==
    {TreeOf(about, logo, post, news, translated) :
        about \in AboutChoices, logo \in LogoChoices, post \in PostChoices,
        news \in NewsChoices,
        translated \in SUBSET {p \in SourcePaths : EndsWithMd(p)}}

\* ---------------------------------------------------------------- the run

Printed(e, f) == [e |-> e, f |-> f]

\* an external call made for file f: the field it translates ("body" for the
\* Markdown call), and whether it failed
Called(f, call, mode) == [e |-> "call", f |-> f, field |-> call, fault |-> mode = "raise"]

Slept == [e |-> "sleep"]

\* what the external capability does during a run: it fails or it uppercases
RunModes == {"raise", "upper"}

\* the file at a path of the tree
FileAt(tree, p) == IF p \in DOMAIN tree THEN tree[p] ELSE Absent

\* the tree with this file at the path
Put(tree, p, file) == (p :> file) @@ tree

\* for root, dirs, files in os.walk(source_path): the files below directory
FilesUnder(tree, directory) ==
    {p \in DOMAIN tree : tree[p] # Absent /\ p.dirs # <<>> /\ p.dirs[1] = directory}

Init ==
    /\ fs \in Trees
    /\ fs0 = fs
    /\ dirIdx = 0 /\ pending = {} /\ pc = "main"
    /\ cur = <<>> /\ data = None /\ body = <<>> /\ trace = <<>>
    /\ input = <<>> /\ output = <<>> /\ stage = "run"

\* main(): the next directory of DIRECTORIES
StartDirectory ==
    /\ pc = "main" /\ dirIdx < Len(DIRECTORIES)
    /\ dirIdx' = dirIdx + 1
    /\ pending' = FilesUnder(fs, DIRECTORIES[dirIdx + 1])
    /\ pc' = "walk"
    /\ UNCHANGED <<fs, fs0, cur, data, body, trace, fnVars>>

\* process_directory() returns: the walk has no file left
EndDirectory ==
    /\ pc = "walk" /\ pending = {}
    /\ pc' = "main"
    /\ UNCHANGED <<fs, fs0, dirIdx, pending, cur, data, body, trace, fnVars>>

\* main() returns
Finish ==
    /\ pc = "main" /\ dirIdx = Len(DIRECTORIES)
    /\ pc' = "done"
    /\ UNCHANGED <<fs, fs0, dirIdx, pending, cur, data, body, trace, fnVars>>

\* a file whose name does not end in .md
IgnoreFile ==
    /\ pc = "walk"
    /\ \E f \in pending :
          /\ ~EndsWithMd(f)
          /\ pending' = pending \ {f}
    /\ UNCHANGED <<fs, fs0, dirIdx, pc, cur, data, body, trace, fnVars>>

\* where the loop goes after the skip message, were the continue missing
AfterSkipFallThrough == "read"

\* where the loop goes after the skip message: continue
AfterSkip == "walk"

\* dest_file.exists(): "Destination file already exists ..., skipping."
SkipFile ==
    /\ pc = "walk"
    /\ \E f \in pending :
          /\ EndsWithMd(f)
          /\ FileAt(fs, dest_file(f)) # Absent
          /\ pending' = pending \ {f}
          /\ cur' = f
          /\ trace' = Append(trace, Printed("skip", f))
    /\ pc' = AfterSkip
    /\ UNCHANGED <<fs, fs0, dirIdx, data, body, fnVars>>

\* "Translating file: ...", and translate_file is entered
BeginFile ==
    /\ pc = "walk"
    /\ \E f \in pending :
          /\ EndsWithMd(f)
          /\ FileAt(fs, dest_file(f)) = Absent
          /\ pending' = pending \ {f}
          /\ cur' = f
          /\ trace' = Append(trace, Printed("translating", f))
    /\ pc' = "read"
    /\ UNCHANGED <<fs, fs0, dirIdx, data, body, fnVars>>

\* open(source_file) raises: nothing catches it and the run ends
ReadFails ==
    /\ pc = "read" /\ ~fs[cur].readable
    /\ pc' = "crashed"
    /\ UNCHANGED <<fs, fs0, dirIdx, pending, cur, data, body, trace, fnVars>>

\* where the run goes when translate_file returns without a front matter,
\* were the pause part of the write
AfterNoFrontMatterNoPause == "walk"

\* where the run goes when translate_file returns without a front matter
AfterNoFrontMatter == "sleep"

\* "No front matter found in ..., skipping file."
NoFrontMatter ==
    /\ pc = "read" /\ fs[cur].readable
    /\ ~MatchFrontMatter(fs[cur].lines).matched
    /\ trace' = Append(trace, Printed("nofrontmatter", cur))
    /\ pc' = AfterNoFrontMatter
    /\ UNCHANGED <<fs, fs0, dirIdx, pending, cur, data, body, fnVars>>

\* the pattern matches: front_matter_data = yaml.safe_load(front_matter)
SplitFrontMatter ==
    /\ pc = "read" /\ fs[cur].readable
    /\ LET match == MatchFrontMatter(fs[cur].lines)
       IN  /\ match.matched
           /\ data' = safe_load(match.front)
           /\ body' = match.body
    /\ pc' = "frontmatter"
    /\ UNCHANGED <<fs, fs0, dirIdx, pending, cur, trace, fnVars>>

CallEvents(calls, modes) ==
    [i \in 1..Len(calls) |-> Called(cur, calls[i].field, modes[i])]

\* front_matter_data = translate_front_matter(...): an exception that leaves
\* it ends the run
TransformFrontMatter ==
    /\ pc = "frontmatter"
    /\ LET calls == FrontMatterCalls(data)
       IN  \E modes \in [1..Len(calls) -> RunModes] :
              LET r == translate_front_matter(data, RepliesTo(calls, modes))
              IN  /\ trace' = trace \o CallEvents(r.calls, modes)
                  /\ IF r.raised
                     THEN pc' = "crashed" /\ data' = data
                     ELSE pc' = "body" /\ data' = r.data
    /\ UNCHANGED <<fs, fs0, dirIdx, pending, cur, body, fnVars>>

\* translated_body = translate_markdown(body, ...)
TranslateBody ==
    /\ pc = "body"
    /\ \E mode \in RunModes :
          /\ body' = translate_markdown(body, ReplyOf(mode, Str(body)))
          /\ trace' = Append(trace, Called(cur, "body", mode))
    /\ pc' = "open"
    /\ UNCHANGED <<fs, fs0, dirIdx, pending, cur, data, fnVars>>

\* dest_file.parent.mkdir(...); open(dest_file, 'w'): the file is there, empty
OpenDest ==
    /\ pc = "open"
    /\ fs' = Put(fs, dest_file(cur), Empty)
    /\ pc' = "write"
    /\ UNCHANGED <<fs0, dirIdx, pending, cur, data, body, trace, fnVars>>

\* f.write(new_content), the file is closed: "Translated file saved to ..."
WriteDest ==
    /\ pc = "write"
    /\ fs' = Put(fs, dest_file(cur), Doc(data, body))
    /\ trace' = Append(trace, Printed("saved", cur))
    /\ pc' = "sleep"
    /\ UNCHANGED <<fs0, dirIdx, pending, cur, data, body, fnVars>>

\* time.sleep(1.1)
Sleep ==
    /\ pc = "sleep"
    /\ trace' = Append(trace, Slept)
    /\ pc' = "walk"
    /\ UNCHANGED <<fs, fs0, dirIdx, pending, cur, data, body, fnVars>>

Next ==
    \/ StartDirectory \/ EndDirectory \/ Finish
    \/ IgnoreFile \/ SkipFile \/ BeginFile
    \/ ReadFails \/ NoFrontMatter \/ SplitFrontMatter
    \/ TransformFrontMatter \/ TranslateBody
    \/ OpenDest \/ WriteDest \/ Sleep

Spec == Init /\ [][Next]_vars

\* the run under interruption: the process may be stopped at any step, and
\* started again on the tree it left
Interrupt ==
    /\ pc \notin {"done", "crashed", "interrupted"}
    /\ IF pc = "write"
       THEN \E left \in {Empty, Truncated(Doc(data, body))} :
               fs' = Put(fs, dest_file(cur), left)
       ELSE fs' = fs
    /\ pc' = "interrupted"
    /\ UNCHANGED <<fs0, dirIdx, pending, cur, data, body, trace, fnVars>>

Rerun ==
    /\ pc = "interrupted"
    /\ fs0' = fs
    /\ dirIdx' = 0 /\ pending' = {} /\ pc' = "main"
    /\ cur' = <<>> /\ data' = None /\ body' = <<>> /\ trace' = <<>>
    /\ UNCHANGED <<fs, fnVars>>

NextInterrupt == Next \/ Interrupt \/ Rerun

SpecInterrupt == Init /\ [][NextInterrupt]_vars

\* ------------------------------------------------------ claims on the run

Skipped(f) == \E i \in 1..Len(trace) : trace[i] = Printed("skip", f)

Began(f) == \E i \in 1..Len(trace) : trace[i] = Printed("translating", f)

Saved(f) == \E i \in 1..Len(trace) : trace[i] = Printed("saved", f)

CallsFor(f) == {i \in 1..Len(trace) : trace[i].e = "call" /\ trace[i].f = f}

\* C1: a file whose destination is there when the run reaches it keeps that
\* destination as it was when the run started, and no external call is made
\* for it.
C1_Resumable ==
    \A f \in SourcePaths :
        Skipped(f) =>
            /\ FileAt(fs, dest_file(f)) = FileAt(fs0, dest_file(f))
            /\ CallsFor(f) = {}
            /\ ~Began(f)

\* C1 witness: a run that ended after skipping pages/about.md, whose old
\* translation is still there, and translating another file
C1_Witness ==
    /\ pc = "done"
    /\ Skipped(AboutMd)
    /\ FileAt(fs, dest_file(AboutMd)) = OldDoc
    /\ Saved(NewsMd)

\* C2 as stated: no error of one file ends the run; the run never stops on
\* an exception.
C2_BatchNeverAborts == pc # "crashed"

ScenarioTree == TreeOf(ScenarioFile, Absent, Absent, Absent, {})

NoFault == \A i \in 1..Len(trace) : trace[i].e = "call" => ~trace[i].fault

ScenarioDoc ==
    Doc(FrontMatter(<< <<"title", Str(<<"H","E","L","L","O"," ","W","O","R","L","D">>)>>,
                       <<"permalink", Str(<<"/","f","r","/","a","b","o","u","t">>)>>,
                       <<"slug", Str(<<"h","e","l","l","o","-","w","o","r","l","d">>)>> >>),
        <<"#"," ","H","I","\n","\n","S","O","M","E"," ","*","T","E","X","T","*",".">>)

ScenarioRan == fs0 = ScenarioTree /\ pc = "done" /\ NoFault

\* C8 as stated: the scenario's run writes the translated document at
\* pages/fr/about.md.
C8_ScenarioAtPagesFr == ScenarioRan => FileAt(fs, ScenarioDest) = ScenarioDoc

\* C8 amended: the scenario's run writes exactly one file, fr/pages/about.md
\* below the source root, with title "HELLO WORLD", permalink "/fr/about",
\* slug "hello-world" and body "# HI\n\nSOME *TEXT*.".
C8_ScenarioAtFrPages ==
    ScenarioRan =>
        /\ FileAt(fs, MirroredDest) = ScenarioDoc
        /\ \A p \in DOMAIN fs : p # MirroredDest => fs[p] = FileAt(fs0, p)

\* C8 witness: the scenario's run has ended with the document written
C8_Witness == ScenarioRan /\ FileAt(fs, MirroredDest).k = "doc"

\* C9 as stated: when a run is interrupted every destination file is absent
\* or complete, and a run never skips a destination that is not complete.
C9_AbsentOrComplete ==
    /\ pc = "interrupted" =>
          \A p \in SourcePaths : FileAt(fs, dest_file(p)).k \in {"absent", "doc"}
    /\ \A f \in SourcePaths : Skipped(f) => FileAt(fs, dest_file(f)).k = "doc"

TransformerEvents == {"translating", "call", "nofrontmatter", "saved"}

\* C10: what the File Transformer does for one file and what is done for
\* another file (its skip included) are separated by a pause; a pause comes
\* only right after the File Transformer ended, by a write or for lack of
\* front matter, never after a skip; and the run does not go on to the next
\* file before the pause.
C10_Paced ==
    /\ \A i, j \in 1..Len(trace) :
          (/\ i < j
           /\ trace[i].e \in TransformerEvents
           /\ trace[j].e \in TransformerEvents \cup {"skip"}
           /\ trace[i].f # trace[j].f) =>
              \E k \in (i + 1)..(j - 1) : trace[k] = Slept
    /\ \A k \in 1..Len(trace) :
          trace[k] = Slept => k > 1 /\ trace[k - 1].e \in {"saved", "nofrontmatter"}
    /\ (pc \in {"walk", "main", "done"} /\ trace # <<>>) =>
          trace[Len(trace)].e \in {"sleep", "skip"}

\* C10 witness: a run that ended after abandoning pages/about.md for lack
\* of front matter, skipping _posts/post.md and writing blog/2024/news.md
C10_Witness ==
    /\ pc = "done"
    /\ \E i \in 1..Len(trace) : trace[i] = Printed("nofrontmatter", AboutMd)
    /\ Skipped(PostMd)
    /\ Saved(NewsMd)

\* ------------------------------------------------ the functions on their own

\* the run's variables, at rest while a function is studied on its own
RunIdle ==
    /\ fs = <<>> /\ fs0 = <<>> /\ dirIdx = 0 /\ pending = {}
    /\ pc = "idle" /\ cur = <<>> /\ data = None /\ body = <<>> /\ trace = <<>>

\* generate_slug on every title up to MaxSlugLen characters
InitSlug ==
    /\ input \in TextsUpTo(SlugAlphabet, MaxSlugLen)
    /\ output = <<>> /\ stage = "init" /\ RunIdle

GenerateSlug ==
    /\ stage = "init"
    /\ output' = generate_slug(input)
    /\ stage' = "once"
    /\ UNCHANGED <<input, runVars>>

NextSlug == GenerateSlug

SpecSlug == InitSlug /\ [][NextSlug]_vars

\* translate_text and translate_markdown on every text up to MaxTextLen
\* characters, against every kind of reply
TextAlphabet == {" ", "\n", "a", "B"}

Replies(text) == {Raise, NoChoices, NoContent, UpperStub(text), PaddedEcho(text)}

InitText ==
    /\ input \in TextsUpTo(TextAlphabet, MaxTextLen)
    /\ output = <<>> /\ stage = "init" /\ RunIdle

TranslateText ==
    /\ stage = "init"
    /\ \E reply \in Replies(input) :
          output' = [fn |-> "translate_text", reply |-> reply,
                     result |-> translate_text(Str(input), reply)]
    /\ stage' = "once"
    /\ UNCHANGED <<input, runVars>>

TranslateMarkdown ==
    /\ stage = "init"
    /\ \E reply \in Replies(input) :
          output' = [fn |-> "translate_markdown", reply |-> reply,
                     result |-> translate_markdown(input, reply)]
    /\ stage' = "once"
    /\ UNCHANGED <<input, runVars>>

NextText == TranslateText \/ TranslateMarkdown

SpecText == InitText /\ [][NextText]_vars

\* translate_front_matter, once and then again on its own result, on front
\* matters with or without a title, a slug and a permalink
LinkAlphabet == {"/", "f", "r", "a"}

TitleEntries ==
    {<<>>, << <<"title", Str(<<"H","i","!"," ","Y","o">>)>> >>, << <<"title", IntVal>> >>}

SlugEntries ==
    {<<>>, << <<"slug", Str(<<"o","l","d">>)>> >>, << <<"slug", Str(<<"h","i","-","y","o">>)>> >>}

LinkEntries ==
    {<<>>, << <<"permalink", IntVal>> >>}
        \cup {<< <<"permalink", Str(l)>> >> : l \in TextsUpTo(LinkAlphabet, MaxLinkLen)}

FrontMatters ==
    {FrontMatter(t \o s \o p) : t \in TitleEntries, s \in SlugEntries, p \in LinkEntries}
        \cup {None, List(<<Str(<<"a">>)>>), List(<<Str(KeyText.tags)>>)}

InitFM ==
    /\ input \in FrontMatters
    /\ output = <<>> /\ stage = "init" /\ RunIdle

TransformOnce ==
    /\ stage = "init"
    /\ LET calls == FrontMatterCalls(input)
       IN  \E modes \in [1..Len(calls) -> Modes] :
              output' = <<translate_front_matter(input, RepliesTo(calls, modes))>>
    /\ stage' = "once"
    /\ UNCHANGED <<input, runVars>>

TransformAgain ==
    /\ stage = "once"
    /\ ~output[1].raised
    /\ LET calls == FrontMatterCalls(output[1].data)
       IN  \E modes \in [1..Len(calls) -> Modes] :
              output' = Append(output,
                  translate_front_matter(output[1].data, RepliesTo(calls, modes)))
    /\ stage' = "twice"
    /\ UNCHANGED <<input, runVars>>

NextFM == TransformOnce \/ TransformAgain

SpecFM == InitFM /\ [][NextFM]_vars

\* ------------------------------------------------- claims on the functions

SlugShape(s) ==
    /\ \A i \in 1..Len(s) : IsSlugChar(s[i]) \/ s[i] = "-"
    /\ s # <<>> => s[1] # "-" /\ s[Len(s)] # "-"
    /\ \A i \in 1..(Len(s) - 1) : ~(s[i] = "-" /\ s[i + 1] = "-")

\* C7: whatever the title, generate_slug returns only lowercase ASCII
\* letters, digits and hyphens, with no hyphen first or last and no two
\* hyphens in a row; the empty title gives the empty slug.
C7_SlugShape ==
    stage = "once" => SlugShape(output) /\ (input = <<>> => output = <<>>)

\* C7 witness: a title with punctuation first, an accented capital, a run
\* of two characters outside the class, and a digit
C7_Witness ==
    /\ stage = "once"
    /\ input = <<"!", "E_ACUTE", " ", "-">>
    /\ output = <<"e">>

\* C3: when the external call raises or returns a faulty response,
\* translate_text returns exactly the text it was given and
\* translate_markdown exactly the document it was given.
C3_FailOpen ==
    (stage = "once" /\ output.reply.kind # "ok") =>
        IF output.fn = "translate_text"
        THEN output.result = Str(input)
        ELSE output.result = input

\* C3 witness: a document with blank characters at both ends comes back as
\* it was from a response without content
C3_Witness ==
    /\ stage = "once"
    /\ input = <<" ", "a", "\n">>
    /\ output.fn = "translate_markdown"
    /\ output.reply = NoContent
    /\ output.result = input

\* C4 as stated: whenever the front matter has a string permalink and the
\* transformer returns, the permalink it returns begins with "/fr/".
C4_PermalinkPrefixed ==
    (/\ stage = "once"
     /\ input.t = "map"
     /\ HasKey(input, "permalink")
     /\ ~output[1].raised) =>
        StartsWith(output[1].data.val["permalink"].s, LanguagePrefix)

\* C5 as stated: the transformer applied to its own result leaves the
\* permalink as the first application made it.
C5_PermalinkIdempotent ==
    (/\ stage = "twice"
     /\ input.t = "map"
     /\ HasKey(input, "permalink")
     /\ ~output[2].raised) =>
        output[2].data.val["permalink"] = output[1].data.val["permalink"]

\* C6 as stated: whenever the front matter has a slug and the transformer
\* returns, the returned slug is generate_slug of the returned title, it is
\* not the slug that was there, and that slug was not handed to
\* translate_text.
C6_SlugAlwaysRegenerated ==
    (/\ stage = "once"
     /\ input.t = "map"
     /\ HasKey(input, "slug")
     /\ ~output[1].raised) =>
        /\ HasKey(output[1].data, "title")
        /\ output[1].data.val["slug"] = Str(generate_slug(output[1].data.val["title"].s))
        /\ output[1].data.val["slug"] # input.val["slug"]
        /\ \A i \in 1..Len(output[1].calls) : output[1].calls[i].field # "slug"

SlugFollowsTitle(before, r) ==
    (before.t = "map" /\ ~r.raised) =>
        /\ HasKey(before, "title") =>
              /\ HasKey(r.data, "slug")
              /\ r.data.val["title"].t = "str"
              /\ r.data.val["slug"] = Str(generate_slug(r.data.val["title"].s))
        /\ (~HasKey(before, "title") /\ HasKey(before, "slug")) =>
              r.data.val["slug"] = before.val["slug"]
        /\ \A i \in 1..Len(r.calls) : r.calls[i].field # "slug"

\* C6 amended: whenever the front matter has a title and the transformer
\* returns, the returned slug is generate_slug of the returned title,
\* whether or not a slug was there; a slug without a title is returned as
\* it was; a slug is never handed to translate_text.
C6_SlugFromTitle ==
    /\ stage \in {"once", "twice"} => SlugFollowsTitle(input, output[1])
    /\ stage = "twice" => SlugFollowsTitle(output[1].data, output[2])

\* C6 witness: a title the service translates, and an old slug replaced by
\* the slug of the translation
C6_Witness ==
    /\ stage = "once"
    /\ input.t = "map"
    /\ HasKey(input, "title") /\ HasKey(input, "slug")
    /\ input.val["slug"] = Str(<<"o","l","d">>)
    /\ ~output[1].raised
    /\ output[1].data.val["title"] = Str(<<"S","a","l","u","t">>)
    /\ output[1].data.val["slug"] = Str(<<"s","a","l","u","t">>)

====
